---- MODULE Spec2Model ----
(***************************************************************************)
(* Model of the two command-line tools of cedar-retouch-utils:             *)
(*   tools/list-audio-devices.c  (the Device Lister)                       *)
(*   tools/sem_unlink.c          (the Semaphore Unlinker)                  *)
(* Text written to stdout and stderr is modelled character by character:   *)
(* a string is a sequence of one-character strings.                        *)
(***************************************************************************)
EXTENDS Integers, Sequences, FiniteSets, TLC

\* ------------------------------------------------------------------------
\* Bounds of the model
\* ------------------------------------------------------------------------

\* Largest device count the audio subsystem reports.
MaxDevices == 2

\* Number of sem_unlink processes run, one after another or interleaved.
NumProcs == 2

\* How many times one semaphore name may come into existence (present at the
\* start, or created by some other program while the tool runs).
MaxLifetimes == 2

\* ------------------------------------------------------------------------
\* Text helpers
\* ------------------------------------------------------------------------

\* n copies of the character c.
Rep(c, n) == [k \in 1..n |-> c]

Max(a, b) == IF a >= b THEN a ELSE b

Digit(d) == <<"0", "1", "2", "3", "4", "5", "6", "7", "8", "9">>[d + 1]

\* The decimal digits of n >= 0, as printf's %d conversion writes them.
RECURSIVE Dec(_)
Dec(n) == IF n < 10 THEN <<Digit(n)>> ELSE Dec(n \div 10) \o <<Digit(n % 10)>>

\* printf's "%<w>d" for n >= 0: right-aligned, padded on the left with spaces
\* to at least w characters; a field width never truncates.
FmtRightD(w, n) == Rep(" ", Max(w, Len(Dec(n))) - Len(Dec(n))) \o Dec(n)

\* printf's "%.<w>s" padded: the string cut to w characters, then padded.
FmtTruncS(w, s) ==
    IF Len(s) >= w THEN SubSeq(s, 1, w) ELSE s \o Rep(" ", w - Len(s))

\* printf's "%-<w>s": left-aligned, padded on the right with spaces to at
\* least w characters; a field width never truncates.
FmtLeftS(w, s) == s \o Rep(" ", Max(w, Len(s)) - Len(s))

\* ------------------------------------------------------------------------
\* The Device Lister: tools/list-audio-devices.c
\* ------------------------------------------------------------------------

\* A null pointer returned by the audio subsystem.
NULL == [null |-> TRUE]

paNoError == 0

paNoDevice == -1

\* Field widths of the output line's format string.
IndexWidth == 3

NameWidth == 40

\* Error codes Pa_Initialize may return, and negative values
\* Pa_GetDeviceCount may return.
InitErrors == {-9999, -9992}

CountErrors == {-10000, -9986}

\* Pa_GetErrorText.
Pa_GetErrorText(e) ==
    CASE e = -10000 -> <<"P","o","r","t","A","u","d","i","o"," ","n","o","t"," ","i","n","i","t","i","a","l","i","z","e","d">>
      [] e = -9999 -> <<"U","n","a","n","t","i","c","i","p","a","t","e","d"," ","h","o","s","t"," ","e","r","r","o","r">>
      [] e = -9992 -> <<"I","n","s","u","f","f","i","c","i","e","n","t"," ","m","e","m","o","r","y">>
      [] e = -9986 -> <<"I","n","t","e","r","n","a","l"," ","P","o","r","t","A","u","d","i","o"," ","e","r","r","o","r">>
      [] OTHER -> <<"S","u","c","c","e","s","s">>

\* Device names the subsystem may report: shorter than the name field, one
\* short of it, exactly as long, and longer.
DeviceNames ==
    { <<"a", "b", "c">>,
      Rep("d", NameWidth - 1),
      Rep("e", NameWidth),
      Rep("f", NameWidth + 2) }

HostApiName(h) == IF h = 0 THEN <<"A", "L", "S", "A">> ELSE <<"J", "A", "C", "K">>

\* The PaDeviceInfo records Pa_GetDeviceInfo may point to: every name on a
\* stereo output device, a mono output device, and two input-only devices.
DeviceInfos ==
    {[name |-> n, maxOutputChannels |-> 2, hostApi |-> 0] : n \in DeviceNames}
        \cup {[name |-> <<"a", "b", "c">>, maxOutputChannels |-> 1, hostApi |-> 1],
              [name |-> <<"a", "b", "c">>, maxOutputChannels |-> 0, hostApi |-> 0],
              [name |-> Rep("e", NameWidth), maxOutputChannels |-> 0, hostApi |-> 1]}

\* What Pa_GetHostApiInfo(h) may return: no record, or the record of h.
HostApiInfos(h) == {NULL, [name |-> HostApiName(h)]}

\* The names of the subsystem's calls, as logged in `calls`.
Queries ==
    {"Pa_GetDeviceCount", "Pa_GetDefaultOutputDevice", "Pa_GetDeviceInfo",
     "Pa_GetHostApiInfo"}

VARIABLES
    lpc,          \* the position of main in list-audio-devices.c
    err,          \* PaError err
    count,        \* int count
    default_out,  \* PaDeviceIndex default_out
    i,            \* the loop index
    info,         \* const PaDeviceInfo *info of the current iteration
    calls,        \* the calls made to the audio subsystem, in order
    infos,        \* what Pa_GetDeviceInfo(k) returned, at index k + 1
    apis,         \* what Pa_GetHostApiInfo returned for device k, at k + 1
    lstdout,      \* the lines written to stdout, in order
    lstderr,      \* the lines written to stderr, in order
    lexit         \* <<>> while running, <<status>> once main has returned

lvars ==
    <<lpc, err, count, default_out, i, info, calls, infos, apis, lstdout,
      lstderr, lexit>>

VARIABLES
    sems,       \* the names in the OS's named-semaphore namespace
    sems0,      \* the namespace before the first invocation
    denied,     \* the names the invoking user may not unlink
    lifetimes,  \* per name, how many times it has come into existence
    argv,       \* per process, its argument vector (argv[p][1] is C's argv[0])
    spc,        \* per process, the position of main in sem_unlink.c
    ret,        \* per process, what its sem_unlink call returned
    errno,      \* per process, errno after a failed call
    ncalls,     \* per process, the number of sem_unlink calls it has made
    sstdout,    \* per process, the text written to stdout
    sstderr,    \* per process, the text written to stderr
    sexit       \* per process, <<>> while running, <<status>> after return

svars ==
    <<sems, sems0, denied, lifetimes, argv, spc, ret, errno, ncalls, sstdout,
      sstderr, sexit>>

vars == <<lvars, svars>>

\* A lookup that was not made.
NotAsked == [asked |-> FALSE]

ListerInit ==
    /\ lpc = "init"
    /\ err = paNoError
    /\ count = 0
    /\ default_out = paNoDevice
    /\ i = 0
    /\ info = NULL
    /\ calls = <<>>
    /\ infos = <<>>
    /\ apis = <<>>
    /\ lstdout = <<>>
    /\ lstderr = <<>>
    /\ lexit = <<>>

\* The output line of one device: "%3d  %-40s  [%s]%s\n".
DeviceLine(idx, name, api_name, marker) ==
    FmtRightD(IndexWidth, idx) \o <<" ", " ">> \o FmtLeftS(NameWidth, name)
        \o <<" ", " ", "[">> \o api_name \o <<"]">> \o marker \o <<"\n">>

\* The placeholder forgotten: an empty label for a missing host-API record.
ApiNameEmpty(api) == IF api # NULL THEN api.name ELSE <<>>

\* api ? api->name : "?"
ApiName(api) == IF api # NULL THEN api.name ELSE <<"?">>

\* The marker test written as i >= default_out.
MarkerAtOrAfter(idx, dflt) == IF idx >= dflt THEN <<" ", "*">> ELSE <<>>

\* (i == default_out) ? " *" : ""
Marker(idx, dflt) == IF idx = dflt THEN <<" ", "*">> ELSE <<>>

\* The channel test off by one: maxOutputChannels <= 1.
SkippedOffByOne(inf) == inf = NULL \/ inf.maxOutputChannels <= 1

\* info == NULL || info->maxOutputChannels < 1
Skipped(inf) == inf = NULL \/ inf.maxOutputChannels < 1

\* Lines 10-14: Pa_Initialize, and the report of its failure.
Initialize ==
    /\ lpc = "init"
    /\ \E e \in {paNoError} \cup InitErrors :
        /\ err' = e
        /\ IF e # paNoError
             THEN /\ calls' = calls \o <<<<"Pa_Initialize">>, <<"Pa_GetErrorText", e>>>>
                  /\ lstderr' = Append(lstderr,
                        <<"P","o","r","t","A","u","d","i","o"," ","i","n","i","t"," ","f","a","i","l","e","d",":"," ">>
                            \o Pa_GetErrorText(e) \o <<"\n">>)
                  /\ lexit' = <<1>>
                  /\ lpc' = "done"
             ELSE /\ calls' = Append(calls, <<"Pa_Initialize">>)
                  /\ lpc' = "count"
                  /\ UNCHANGED <<lstderr, lexit>>
    /\ UNCHANGED <<count, default_out, i, info, infos, apis, lstdout>>
    /\ UNCHANGED svars

\* Lines 16-18 with the test written count <= 0.
GetDeviceCountZeroFails ==
    /\ lpc = "count"
    /\ \E c \in CountErrors \cup (0..MaxDevices) :
        /\ count' = c
        /\ IF c <= 0
             THEN /\ calls' = calls \o <<<<"Pa_GetDeviceCount">>, <<"Pa_GetErrorText", c>>>>
                  /\ lstderr' = Append(lstderr,
                        <<"P","o","r","t","A","u","d","i","o"," ","e","r","r","o","r",":"," ">>
                            \o Pa_GetErrorText(c) \o <<"\n">>)
                  /\ lpc' = "count_failed"
             ELSE /\ calls' = Append(calls, <<"Pa_GetDeviceCount">>)
                  /\ lpc' = "default"
                  /\ UNCHANGED lstderr
    /\ UNCHANGED <<err, default_out, i, info, infos, apis, lstdout, lexit>>
    /\ UNCHANGED svars

\* Lines 16-18: Pa_GetDeviceCount, and the report of a negative count.
GetDeviceCount ==
    /\ lpc = "count"
    /\ \E c \in CountErrors \cup (0..MaxDevices) :
        /\ count' = c
        /\ IF c < 0
             THEN /\ calls' = calls \o <<<<"Pa_GetDeviceCount">>, <<"Pa_GetErrorText", c>>>>
                  /\ lstderr' = Append(lstderr,
                        <<"P","o","r","t","A","u","d","i","o"," ","e","r","r","o","r",":"," ">>
                            \o Pa_GetErrorText(c) \o <<"\n">>)
                  /\ lpc' = "count_failed"
             ELSE /\ calls' = Append(calls, <<"Pa_GetDeviceCount">>)
                  /\ lpc' = "default"
                  /\ UNCHANGED lstderr
    /\ UNCHANGED <<err, default_out, i, info, infos, apis, lstdout, lexit>>
    /\ UNCHANGED svars

\* Lines 19-20 without the teardown.
CountFailedExitNoTerminate ==
    /\ lpc = "count_failed"
    /\ lexit' = <<1>>
    /\ lpc' = "done"
    /\ UNCHANGED <<err, count, default_out, i, info, calls, infos, apis, lstdout, lstderr>>
    /\ UNCHANGED svars

\* Lines 19-20: teardown and exit after a negative count.
CountFailedExit ==
    /\ lpc = "count_failed"
    /\ calls' = Append(calls, <<"Pa_Terminate">>)
    /\ lexit' = <<1>>
    /\ lpc' = "done"
    /\ UNCHANGED <<err, count, default_out, i, info, infos, apis, lstdout, lstderr>>
    /\ UNCHANGED svars

\* Line 23: Pa_GetDefaultOutputDevice; the subsystem answers paNoDevice or
\* any index, valid (below count) or not.
GetDefaultOutputDevice ==
    /\ lpc = "default"
    /\ \E d \in {paNoDevice} \cup (0..MaxDevices) :
        default_out' = d
    /\ calls' = Append(calls, <<"Pa_GetDefaultOutputDevice">>)
    /\ i' = 0
    /\ lpc' = "loop"
    /\ UNCHANGED <<err, count, info, infos, apis, lstdout, lstderr, lexit>>
    /\ UNCHANGED svars

\* Lines 25-28: the loop test, Pa_GetDeviceInfo(i) and the skip.
GetDeviceInfo ==
    /\ lpc = "loop"
    /\ i < count
    /\ \E inf \in {NULL} \cup DeviceInfos :
        /\ info' = inf
        /\ infos' = Append(infos, inf)
        /\ IF Skipped(inf)
             THEN /\ apis' = Append(apis, NotAsked)
                  /\ i' = i + 1
                  /\ lpc' = "loop"
             ELSE /\ lpc' = "hostapi"
                  /\ UNCHANGED <<apis, i>>
    /\ calls' = Append(calls, <<"Pa_GetDeviceInfo", i>>)
    /\ UNCHANGED <<err, count, default_out, lstdout, lstderr, lexit>>
    /\ UNCHANGED svars

\* Lines 29-32: Pa_GetHostApiInfo and the device's output line.
PrintDevice ==
    /\ lpc = "hostapi"
    /\ \E api \in HostApiInfos(info.hostApi) :
        /\ apis' = Append(apis, api)
        /\ lstdout' = Append(lstdout,
              DeviceLine(i, info.name, ApiName(api), Marker(i, default_out)))
    /\ calls' = Append(calls, <<"Pa_GetHostApiInfo", info.hostApi>>)
    /\ i' = i + 1
    /\ lpc' = "loop"
    /\ UNCHANGED <<err, count, default_out, info, infos, lstderr, lexit>>
    /\ UNCHANGED svars

\* Lines 25, 35-36: the loop ends; teardown and normal exit.
TerminateAndExit ==
    /\ lpc = "loop"
    /\ ~(i < count)
    /\ calls' = Append(calls, <<"Pa_Terminate">>)
    /\ lexit' = <<0>>
    /\ lpc' = "done"
    /\ UNCHANGED <<err, count, default_out, i, info, infos, apis, lstdout, lstderr>>
    /\ UNCHANGED svars

ListerNext ==
    \/ Initialize
    \/ GetDeviceCount
    \/ CountFailedExit
    \/ GetDefaultOutputDevice
    \/ GetDeviceInfo
    \/ PrintDevice
    \/ TerminateAndExit

\* ------------------------------------------------------------------------
\* The Semaphore Unlinker: tools/sem_unlink.c
\* ------------------------------------------------------------------------

Procs == 1..NumProcs

ProgramName == <<".", "/", "s", "e", "m", "_", "u", "n", "l", "i", "n", "k">>

SemNames == { <<"/", "t", "e", "s", "t">>, <<"/", "a">> }

\* The argument vectors a process may be started with: argv[0] alone, one
\* argument, two arguments, three arguments.
Argvs ==
    {<<ProgramName>>}
        \cup {<<ProgramName, n>> : n \in SemNames}
        \cup {<<ProgramName, <<"/", "t", "e", "s", "t">>, <<"/", "a">>>>,
              <<ProgramName, <<"/", "a">>, <<"/", "a">>, <<"/", "t", "e", "s", "t">>>>}

\* errno values of a failed sem_unlink.
Errnos == {"ENOENT", "EACCES"}

\* strerror.
StrError(e) ==
    IF e = "ENOENT"
      THEN <<"N","o"," ","s","u","c","h"," ","f","i","l","e"," ","o","r"," ","d","i","r","e","c","t","o","r","y">>
      ELSE <<"P","e","r","m","i","s","s","i","o","n"," ","d","e","n","i","e","d">>

\* perror(s): s, a colon and a space, the text of errno, a newline.
PError(s, e) == s \o <<":", " ">> \o StrError(e) \o <<"\n">>

\* fprintf(stderr, "Usage: %s /name\n", argv[0])
UsageMessage(prog) ==
    <<"U", "s", "a", "g", "e", ":", " ">> \o prog \o <<" ", "/", "n", "a", "m", "e", "\n">>

\* printf("Unlinked semaphore %s\n", argv[1])
UnlinkedMessage(name) ==
    <<"U","n","l","i","n","k","e","d"," ","s","e","m","a","p","h","o","r","e"," ">>
        \o name \o <<"\n">>

\* int argc
argc(p) == Len(argv[p])

\* argv[1], the semaphore name
NameArg(p) == argv[p][2]

SemInit ==
    /\ sems \in SUBSET SemNames
    /\ sems0 = sems
    /\ denied \in SUBSET SemNames
    /\ lifetimes = [n \in SemNames |-> IF n \in sems THEN 1 ELSE 0]
    /\ argv \in [Procs -> Argvs]
    /\ spc = [p \in Procs |-> "start"]
    /\ ret = [p \in Procs |-> 0]
    /\ errno = [p \in Procs |-> "none"]
    /\ ncalls = [p \in Procs |-> 0]
    /\ sstdout = [p \in Procs |-> <<>>]
    /\ sstderr = [p \in Procs |-> <<>>]
    /\ sexit = [p \in Procs |-> <<>>]

\* The OS's sem_unlink(name): the value returned, errno, and the namespace
\* after the call.
SemUnlink(name) ==
    IF name \notin sems
      THEN [ret |-> -1, errno |-> "ENOENT", sems |-> sems]
    ELSE IF name \in denied
      THEN [ret |-> -1, errno |-> "EACCES", sems |-> sems]
    ELSE [ret |-> 0, errno |-> "none", sems |-> sems \ {name}]

\* Lines 10-13 with the test written argc < 2: extra arguments pass.
CheckArgsAtLeastOne(p) ==
    /\ spc[p] = "start"
    /\ IF argc(p) < 2
         THEN /\ sstderr' = [sstderr EXCEPT ![p] = @ \o UsageMessage(argv[p][1])]
              /\ sexit' = [sexit EXCEPT ![p] = <<1>>]
              /\ spc' = [spc EXCEPT ![p] = "done"]
         ELSE /\ spc' = [spc EXCEPT ![p] = "unlink"]
              /\ UNCHANGED <<sstderr, sexit>>
    /\ UNCHANGED <<sems, sems0, denied, lifetimes, argv, ret, errno, ncalls, sstdout>>
    /\ UNCHANGED lvars

\* Lines 10-13: the argument-count check and the usage message.
CheckArgs(p) ==
    /\ spc[p] = "start"
    /\ IF argc(p) # 2
         THEN /\ sstderr' = [sstderr EXCEPT ![p] = @ \o UsageMessage(argv[p][1])]
              /\ sexit' = [sexit EXCEPT ![p] = <<1>>]
              /\ spc' = [spc EXCEPT ![p] = "done"]
         ELSE /\ spc' = [spc EXCEPT ![p] = "unlink"]
              /\ UNCHANGED <<sstderr, sexit>>
    /\ UNCHANGED <<sems, sems0, denied, lifetimes, argv, ret, errno, ncalls, sstdout>>
    /\ UNCHANGED lvars

\* Line 15 with the call made on argv[0].
UnlinkProgramName(p) ==
    /\ spc[p] = "unlink"
    /\ LET r == SemUnlink(argv[p][1]) IN
        /\ ret' = [ret EXCEPT ![p] = r.ret]
        /\ errno' = [errno EXCEPT ![p] = r.errno]
        /\ sems' = r.sems
    /\ ncalls' = [ncalls EXCEPT ![p] = @ + 1]
    /\ spc' = [spc EXCEPT ![p] = "report"]
    /\ UNCHANGED <<sems0, denied, lifetimes, argv, sstdout, sstderr, sexit>>
    /\ UNCHANGED lvars

\* Line 15 with a failed call tried once more.
UnlinkRetry(p) ==
    /\ spc[p] = "unlink"
    /\ LET r == SemUnlink(NameArg(p)) IN
        /\ ret' = [ret EXCEPT ![p] = r.ret]
        /\ errno' = [errno EXCEPT ![p] = r.errno]
        /\ sems' = r.sems
        /\ ncalls' = [ncalls EXCEPT ![p] = @ + (IF r.ret # 0 THEN 2 ELSE 1)]
    /\ spc' = [spc EXCEPT ![p] = "report"]
    /\ UNCHANGED <<sems0, denied, lifetimes, argv, sstdout, sstderr, sexit>>
    /\ UNCHANGED lvars

\* Line 15: the call sem_unlink(argv[1]).
Unlink(p) ==
    /\ spc[p] = "unlink"
    /\ LET r == SemUnlink(NameArg(p)) IN
        /\ ret' = [ret EXCEPT ![p] = r.ret]
        /\ errno' = [errno EXCEPT ![p] = r.errno]
        /\ sems' = r.sems
    /\ ncalls' = [ncalls EXCEPT ![p] = @ + 1]
    /\ spc' = [spc EXCEPT ![p] = "report"]
    /\ UNCHANGED <<sems0, denied, lifetimes, argv, sstdout, sstderr, sexit>>
    /\ UNCHANGED lvars

\* Lines 15-21 with the failure reported but the status left at 0.
ReportFailureExitsZero(p) ==
    /\ spc[p] = "report"
    /\ IF ret[p] # 0
         THEN /\ sstderr' = [sstderr EXCEPT ![p] = @ \o PError(<<"s","e","m","_","u","n","l","i","n","k">>, errno[p])]
              /\ sexit' = [sexit EXCEPT ![p] = <<0>>]
              /\ UNCHANGED sstdout
         ELSE /\ sstdout' = [sstdout EXCEPT ![p] = @ \o UnlinkedMessage(NameArg(p))]
              /\ sexit' = [sexit EXCEPT ![p] = <<0>>]
              /\ UNCHANGED sstderr
    /\ spc' = [spc EXCEPT ![p] = "done"]
    /\ UNCHANGED <<sems, sems0, denied, lifetimes, argv, ret, errno, ncalls>>
    /\ UNCHANGED lvars

\* Lines 15-21: the test of the call's result, the error report or the
\* confirmation, and the return.
Report(p) ==
    /\ spc[p] = "report"
    /\ IF ret[p] # 0
         THEN /\ sstderr' = [sstderr EXCEPT ![p] = @ \o PError(<<"s","e","m","_","u","n","l","i","n","k">>, errno[p])]
              /\ sexit' = [sexit EXCEPT ![p] = <<1>>]
              /\ UNCHANGED sstdout
         ELSE /\ sstdout' = [sstdout EXCEPT ![p] = @ \o UnlinkedMessage(NameArg(p))]
              /\ sexit' = [sexit EXCEPT ![p] = <<0>>]
              /\ UNCHANGED sstderr
    /\ spc' = [spc EXCEPT ![p] = "done"]
    /\ UNCHANGED <<sems, sems0, denied, lifetimes, argv, ret, errno, ncalls>>
    /\ UNCHANGED lvars

\* Some other program creates a named semaphore (sem_open with O_CREAT).
SemCreate(n) ==
    /\ n \notin sems
    /\ lifetimes[n] < MaxLifetimes
    /\ sems' = sems \cup {n}
    /\ lifetimes' = [lifetimes EXCEPT ![n] = @ + 1]
    /\ UNCHANGED <<sems0, denied, argv, spc, ret, errno, ncalls, sstdout, sstderr, sexit>>
    /\ UNCHANGED lvars

SemNext ==
    \/ \E p \in Procs : CheckArgs(p)
    \/ \E p \in Procs : Unlink(p)
    \/ \E p \in Procs : Report(p)
    \/ \E n \in SemNames : SemCreate(n)

\* The Semaphore Unlinker is not run.
SemIdle ==
    /\ sems = {}
    /\ sems0 = {}
    /\ denied = {}
    /\ lifetimes = [n \in SemNames |-> 0]
    /\ argv = [p \in Procs |-> <<ProgramName>>]
    /\ spc = [p \in Procs |-> "done"]
    /\ ret = [p \in Procs |-> 0]
    /\ errno = [p \in Procs |-> "none"]
    /\ ncalls = [p \in Procs |-> 0]
    /\ sstdout = [p \in Procs |-> <<>>]
    /\ sstderr = [p \in Procs |-> <<>>]
    /\ sexit = [p \in Procs |-> <<>>]

\* The Device Lister alone.
InitLister == ListerInit /\ SemIdle

SpecLister == InitLister /\ [][ListerNext]_vars

\* The Semaphore Unlinker alone: NumProcs invocations and the rest of the OS.
InitSem == SemInit /\ ListerInit

SpecSem == InitSem /\ [][SemNext]_vars

\* ------------------------------------------------------------------------
\* Reading the Device Lister's output back
\* ------------------------------------------------------------------------

IsDigit(c) == c \in {"0", "1", "2", "3", "4", "5", "6", "7", "8", "9"}

DigitValue(c) == CHOOSE d \in 0..9 : Digit(d) = c

\* The number written in decimal digits from position k of line on.
RECURSIVE ParseDec(_, _, _)
ParseDec(line, k, acc) ==
    IF k <= Len(line) /\ IsDigit(line[k])
      THEN ParseDec(line, k + 1, acc * 10 + DigitValue(line[k]))
      ELSE acc

\* The position of the first character of line, at or after k, that is c
\* (Len(line) + 1 when there is none).
RECURSIVE Find(_, _, _)
Find(line, c, k) ==
    IF k > Len(line) \/ line[k] = c THEN k ELSE Find(line, c, k + 1)

RECURSIVE SkipSpaces(_, _)
SkipSpaces(line, k) ==
    IF k <= Len(line) /\ line[k] = " " THEN SkipSpaces(line, k + 1) ELSE k

\* The device index a line starts with.
LineIndex(line) == ParseDec(line, SkipSpaces(line, 1), 0)

\* The column (from 1) of the line's opening bracket.
BracketColumn(line) == Find(line, "[", 1)

\* The line's bracketed field, brackets included.
BracketField(line) ==
    SubSeq(line, BracketColumn(line), Find(line, "]", BracketColumn(line)))

\* The line ends in a space and an asterisk (before its newline).
HasMarker(line) ==
    /\ Len(line) >= 3
    /\ SubSeq(line, Len(line) - 2, Len(line)) = <<" ", "*", "\n">>

\* The characters of the line between the index field's two spaces and the
\* two spaces before the bracket: the device-name field.
NameField(line) ==
    SubSeq(line, SkipSpaces(line, 1) + Len(Dec(LineIndex(line))) + 2,
           BracketColumn(line) - 3)

TerminateCount ==
    Cardinality({k \in 1..Len(calls) : calls[k] = <<"Pa_Terminate">>})

InitSucceeded == lpc # "init" /\ err = paNoError

InitFailed == lpc # "init" /\ err # paNoError

\* The indices whose device record was available and output-capable, among
\* the iterations completed so far.
Eligible ==
    {k \in 0..(i - 1) : infos[k + 1] # NULL /\ infos[k + 1].maxOutputChannels >= 1}

PrintedIndices == {LineIndex(lstdout[k]) : k \in 1..Len(lstdout)}

\* ------------------------------------------------------------------------
\* Claims about the Device Lister
\* ------------------------------------------------------------------------

\* C1: the audio subsystem is torn down exactly once before the process
\* exits if initialization succeeded (on the negative-count path and on the
\* normal path), never if it failed; no query (device count, default device,
\* device info, host-API info) is made after teardown or after a failed
\* initialization.
C1_TeardownDiscipline ==
    /\ TerminateCount <= 1
    /\ lpc = "done" /\ InitSucceeded => TerminateCount = 1
    /\ InitFailed => TerminateCount = 0
    /\ TerminateCount = 1 => lpc = "done"
    /\ \A k \in 1..Len(calls) :
          calls[k][1] \in Queries =>
            /\ InitSucceeded
            /\ calls[1] = <<"Pa_Initialize">>
            /\ \A j \in 1..k : calls[j] # <<"Pa_Terminate">>
    /\ \A k \in 1..Len(calls) :
          calls[k] = <<"Pa_Terminate">> => k = Len(calls)

\* C1's case: the run that ended on the negative-count path, torn down.
C1_Witness ==
    lpc = "done" /\ InitSucceeded /\ count < 0 /\ TerminateCount = 1

\* C2: stdout holds exactly one line for each index whose device record is
\* non-null with maxOutputChannels >= 1, no line for any other index, and the
\* lines are in strictly ascending index order.
C2_LinesAreOutputDevices ==
    /\ PrintedIndices = Eligible
    /\ \A a, b \in 1..Len(lstdout) :
          a < b => LineIndex(lstdout[a]) < LineIndex(lstdout[b])
    /\ lpc = "done" /\ lexit = <<0>> => i = count /\ Len(infos) = count

\* C2's case: two devices, index 0 output-capable and default, index 1
\* input-only: exactly one line, for index 0.
C2_Witness ==
    /\ lpc = "done"
    /\ count = 2
    /\ default_out = 0
    /\ infos[1] # NULL /\ infos[1].maxOutputChannels >= 1
    /\ infos[2] # NULL /\ infos[2].maxOutputChannels = 0
    /\ Len(lstdout) = 1
    /\ LineIndex(lstdout[1]) = 0

\* C3: a printed line ends in " *" exactly when its index equals the default
\* output index; with a default outside 0..count-1 no line carries the
\* marker; at most one line of a run carries it.
C3_MarkerOnDefaultOnly ==
    /\ \A k \in 1..Len(lstdout) :
          HasMarker(lstdout[k]) <=> LineIndex(lstdout[k]) = default_out
    /\ default_out \notin 0..(count - 1) =>
          \A k \in 1..Len(lstdout) : ~HasMarker(lstdout[k])
    /\ Cardinality({k \in 1..Len(lstdout) : HasMarker(lstdout[k])}) <= 1

\* C3's case: two lines printed, the second for the default device.
C3_Witness ==
    /\ lpc = "done"
    /\ Len(lstdout) = 2
    /\ default_out = 1
    /\ HasMarker(lstdout[2])
    /\ ~HasMarker(lstdout[1])

\* C4 as stated: the name field occupies exactly 40 characters for a name of
\* any length (padded when shorter, truncated when longer), so the bracket
\* starts at the same column on every line.
C4_NameFieldAlways40 ==
    \A k \in 1..Len(lstdout) :
        /\ Len(NameField(lstdout[k])) = NameWidth
        /\ BracketColumn(lstdout[k]) = IndexWidth + 2 + NameWidth + 2 + 1
        /\ NameField(lstdout[k]) =
              FmtTruncS(NameWidth, infos[LineIndex(lstdout[k]) + 1].name)

\* C4 amended: the name field is left-aligned and at least 40 characters
\* wide: a name of at most 40 characters is padded on the right with spaces
\* to 40, a longer name is written in full, never truncated, and moves the
\* bracket to the right by its excess.
C4_NameFieldAtLeast40 ==
    \A k \in 1..Len(lstdout) :
        LET name == infos[LineIndex(lstdout[k]) + 1].name
            width == Max(NameWidth, Len(name))
            field == NameField(lstdout[k])
        IN  /\ Len(field) = width
            /\ SubSeq(field, 1, Len(name)) = name
            /\ SubSeq(field, Len(name) + 1, width) = Rep(" ", width - Len(name))
            /\ BracketColumn(lstdout[k]) = IndexWidth + 2 + width + 2 + 1

\* C4's case: a line was printed for a name longer than the field, and one
\* for a shorter name.
C4_Witness ==
    /\ \E k \in 1..Len(lstdout) :
          Len(infos[LineIndex(lstdout[k]) + 1].name) > NameWidth
    /\ \E k \in 1..Len(lstdout) :
          Len(infos[LineIndex(lstdout[k]) + 1].name) < NameWidth

\* C5: the process exits with status 1 exactly when initialization fails or
\* the device count is negative, then with no line on stdout and an error
\* message on stderr; every other run exits with status 0, missing device or
\* host-API records included.
C5_ExitStatus ==
    /\ lpc # "done" => lexit = <<>>
    /\ lpc = "done" =>
        /\ lexit \in {<<0>>, <<1>>}
        /\ lexit = <<1>> <=> (err # paNoError \/ count < 0)
        /\ lexit = <<1>> =>
            /\ lstdout = <<>>
            /\ Len(lstderr) = 1
            /\ LET text == Pa_GetErrorText(IF err # paNoError THEN err ELSE count)
               IN  SubSeq(lstderr[1], Len(lstderr[1]) - Len(text), Len(lstderr[1]))
                      = text \o <<"\n">>
        /\ lexit = <<0>> => lstderr = <<>>

\* C5's case: a run that met a missing device record and a missing host-API
\* record, and exited with status 0.
C5_Witness ==
    /\ lpc = "done"
    /\ lexit = <<0>>
    /\ \E k \in 1..Len(infos) : infos[k] = NULL
    /\ \E k \in 1..Len(apis) : apis[k] = NULL

\* C6: an output-capable device whose host-API lookup returns no record
\* still gets its line, with the bracketed field "[?]"; when the lookup
\* succeeds the field holds the record's name; the lookup is made only for a
\* non-null device record.
C6_HostApiField ==
    \A k \in 1..Len(apis) :
        /\ apis[k] # NotAsked =>
            /\ infos[k] # NULL
            /\ \E n \in 1..Len(lstdout) :
                /\ LineIndex(lstdout[n]) = k - 1
                /\ BracketField(lstdout[n]) =
                      IF apis[k] = NULL
                        THEN <<"[", "?", "]">>
                        ELSE <<"[">> \o apis[k].name \o <<"]">>
        /\ infos[k] = NULL => apis[k] = NotAsked

\* C6's case: a line printed for a device whose host-API lookup failed.
C6_Witness ==
    \E k \in 1..Len(apis) :
        /\ apis[k] = NULL
        /\ \E n \in 1..Len(lstdout) :
            /\ LineIndex(lstdout[n]) = k - 1
            /\ BracketField(lstdout[n]) = <<"[", "?", "]">>

\* ------------------------------------------------------------------------
\* Claims about the Semaphore Unlinker
\* ------------------------------------------------------------------------

\* needle occurs in hay as a run of consecutive characters.
Contains(hay, needle) ==
    \E k \in 1..(Len(hay) - Len(needle) + 1) :
        SubSeq(hay, k, k + Len(needle) - 1) = needle

\* The step is one of process p.
StepOf(p) == spc'[p] # spc[p]

\* The step is process p's sem_unlink call.
CallOf(p) == spc[p] = "unlink" /\ spc'[p] = "report"

\* The processes invoked with exactly one argument, the name n.
InvocationsOn(n) == {p \in Procs : argc(p) = 2 /\ NameArg(p) = n}

C7_UsageState ==
    \A p \in Procs :
        argc(p) # 2 =>
            /\ spc[p] \in {"start", "done"}
            /\ ncalls[p] = 0
            /\ sstdout[p] = <<>>
            /\ spc[p] = "done" =>
                /\ sexit[p] = <<1>>
                /\ sstderr[p] =
                      <<"U", "s", "a", "g", "e", ":", " ">> \o argv[p][1]
                          \o <<" ", "/", "n", "a", "m", "e", "\n">>

C7_UsageStep ==
    \A p \in Procs : argc(p) # 2 /\ StepOf(p) => sems' = sems

\* C7: with an argument count other than one (none, or two or more) the
\* program prints the usage message to stderr, exits with status 1, makes no
\* removal call, writes nothing to stdout and leaves the namespace unchanged.
C7_WrongArgumentCount == []C7_UsageState /\ [][C7_UsageStep]_vars

\* C7's case: an invocation with two or more arguments has exited, and one
\* with no argument has.
C7_Witness ==
    /\ \E p \in Procs : argc(p) > 2 /\ spc[p] = "done" /\ sexit[p] = <<1>>
    /\ \E p \in Procs : argc(p) = 1 /\ spc[p] = "done" /\ sexit[p] = <<1>>

\* An invocation with one argument whose removal call failed has exited.
FailedRemoval(p) ==
    spc[p] = "done" /\ argc(p) = 2 /\ ncalls[p] = 1 /\ ret[p] # 0

\* C8 as stated: after a failed removal the program has exited with status
\* 1, stderr contains a reference to the semaphore's name together with the
\* system error text, and stdout holds no confirmation.
C8_StderrNamesSemaphore ==
    \A p \in Procs :
        FailedRemoval(p) =>
            /\ sexit[p] = <<1>>
            /\ Contains(sstderr[p], NameArg(p))
            /\ Contains(sstderr[p], StrError(errno[p]))
            /\ sstdout[p] = <<>>

C8_FailureState ==
    \A p \in Procs :
        FailedRemoval(p) =>
            /\ sexit[p] = <<1>>
            /\ errno[p] \in Errnos
            /\ sstderr[p] =
                  <<"s", "e", "m", "_", "u", "n", "l", "i", "n", "k", ":", " ">>
                      \o StrError(errno[p]) \o <<"\n">>
            /\ ~Contains(sstderr[p], NameArg(p))
            /\ sstdout[p] = <<>>

C8_FailureStep ==
    \A p \in Procs :
        CallOf(p) /\ (NameArg(p) \notin sems \/ NameArg(p) \in denied) =>
            /\ ret'[p] # 0
            /\ sems' = sems

\* C8 amended: after a failed removal (the name does not exist, or the OS
\* rejects the removal) the program exits with status 1, stderr is exactly
\* "sem_unlink: " followed by the system error text and a newline (it names
\* the failed operation and not the semaphore), stdout holds no
\* confirmation, and the namespace is unchanged.
C8_RemovalFailure == []C8_FailureState /\ [][C8_FailureStep]_vars

\* C8's case: one invocation failed on a name that does not exist, one on a
\* name whose removal is not permitted.
C8_Witness ==
    /\ \E p \in Procs : FailedRemoval(p) /\ errno[p] = "ENOENT"
    /\ \E p \in Procs : FailedRemoval(p) /\ errno[p] = "EACCES"

C9_SuccessState ==
    \A p \in Procs :
        /\ sexit[p] = <<0>> =>
            /\ spc[p] = "done"
            /\ argc(p) = 2
            /\ ncalls[p] = 1
            /\ ret[p] = 0
            /\ sstderr[p] = <<>>
            /\ sstdout[p] =
                  <<"U","n","l","i","n","k","e","d"," ","s","e","m","a","p","h","o","r","e"," ">>
                      \o NameArg(p) \o <<"\n">>
            /\ NameArg(p) = <<"/", "t", "e", "s", "t">> =>
                  sstdout[p] =
                      <<"U","n","l","i","n","k","e","d"," ","s","e","m","a","p","h","o","r","e"," ","/","t","e","s","t","\n">>
        /\ spc[p] = "done" /\ argc(p) = 2 /\ ret[p] = 0 => sexit[p] = <<0>>
        /\ sstdout[p] # <<>> => ncalls[p] = 1 /\ ret[p] = 0 /\ spc[p] = "done"

C9_SuccessStep ==
    \A p \in Procs :
        CallOf(p) =>
            /\ NameArg(p) \in sems \ denied => ret'[p] = 0
            /\ ret'[p] = 0 =>
                /\ NameArg(p) \in sems \ denied
                /\ sems' = sems \ {NameArg(p)}

\* C9: with one argument naming a semaphore that exists and is removable the
\* program exits with status 0, stdout is exactly "Unlinked semaphore <name>"
\* and a newline, printed only after the removal call returned success, and
\* the namespace afterwards is the prior one minus that name; status 0
\* occurs in no other case.
C9_RemovalSuccess == []C9_SuccessState /\ [][C9_SuccessStep]_vars

\* C9's case: "/test" was removed and confirmed while "/a" is still there.
C9_Witness ==
    \E p \in Procs :
        /\ sexit[p] = <<0>>
        /\ NameArg(p) = <<"/", "t", "e", "s", "t">>
        /\ <<"/", "t", "e", "s", "t">> \notin sems
        /\ <<"/", "a">> \in sems
        /\ lifetimes[<<"/", "a">>] = 1

\* The name existed before the first invocation and was not created again.
ExistsOnce(n) == n \in sems0 /\ lifetimes[n] = 1

\* Every invocation on n has exited, and there is one.
AllExited(n) ==
    InvocationsOn(n) # {} /\ \A p \in InvocationsOn(n) : spc[p] = "done"

Succeeded(n) == {p \in InvocationsOn(n) : sexit[p] = <<0>>}

\* C10 as stated: each invocation makes at most one removal call, and for a
\* name that exists once and is not re-created, exactly one of the
\* invocations on it exits with status 0 and every other one with status 1.
C10_ExactlyOneSucceeds ==
    /\ \A p \in Procs : ncalls[p] <= 1
    /\ \A n \in SemNames :
          ExistsOnce(n) /\ AllExited(n) =>
            /\ Cardinality(Succeeded(n)) = 1
            /\ \A p \in InvocationsOn(n) \ Succeeded(n) : sexit[p] = <<1>>

\* C10 amended: each invocation makes at most one removal call; for a name
\* that exists once and is not re-created at most one invocation on it exits
\* with status 0, and when the name is also removable by the invoking user,
\* exactly one does and every other one exits with status 1.
C10_OneSuccessPerRemovableName ==
    /\ \A p \in Procs : ncalls[p] <= 1
    /\ \A n \in SemNames :
          ExistsOnce(n) =>
            /\ Cardinality(Succeeded(n)) <= 1
            /\ AllExited(n) =>
                /\ n \notin denied => Cardinality(Succeeded(n)) = 1
                /\ \A p \in InvocationsOn(n) \ Succeeded(n) : sexit[p] = <<1>>

\* C10's case: two invocations on one removable name that existed once; the
\* first succeeded and the second failed.
C10_Witness ==
    \E n \in SemNames : \E p, q \in InvocationsOn(n) :
        /\ ExistsOnce(n)
        /\ n \notin denied
        /\ AllExited(n)
        /\ sexit[p] = <<0>>
        /\ sexit[q] = <<1>>
        /\ errno[q] = "ENOENT"

====
